---- MODULE Spec2Model ----
(***************************************************************************)
(* Model of helpers/template_processor.py: the variable merge, the         *)
(* identifier filter, the derivation of output paths, main()'s layering of *)
(* variable sources, and the file generation pipeline                      *)
(* (generate_project_files and _copy_shared_files).                        *)
(*                                                                         *)
(* Strings are sequences of tokens.  A token is a run of characters that   *)
(* no operation of the program splits: "/" is the path separator, a token  *)
(* starting with "." is an extension, the others are plain text.           *)
(* Concatenating tokens is concatenating text, so <<"my","console","/">>   *)
(* is the text "myconsole/".                                               *)
(***************************************************************************)
EXTENDS Integers, Sequences, FiniteSets, TLC

VARIABLES
    pc,               \* position of the running function
    \* _to_cpp_identifier_filter
    value,            \* the filter's argument
    once,             \* f(value)
    twice,            \* f(f(value))
    \* merge_variables
    variable_dicts,   \* *variable_dicts, lowest precedence first
    result,           \* the local `result` of merge_variables
    nmerged,          \* number of dictionaries the loop has consumed
    \* main
    args,             \* parsed command line
    config_file,      \* what the file named by --config holds
    variables,        \* main's local `variables`
    \* output path derivation (generate_project_files, line 201)
    project_type,     \* the category
    template_file,    \* a discovered template path
    rel_output_path,  \* the derived output path
    \* generate_project_files / _copy_shared_files
    tree,             \* the template library: files below the category
                      \* directory and below shared/, in os.walk order
    template_files,   \* get_template_files(project_type), discovery order
    copy_shared,      \* the copy_shared argument
    preexisting,      \* whether the output directory already holds the files
    disk,             \* output tree: destination -> [content, mode]
    i,                \* index of the file in work (1-based)
    generated_files,  \* generate_project_files' local list
    processed_files,  \* _copy_shared_files' local list
    error,            \* the exception in flight or being handled
    render_calls,     \* templates handed to process_template, in order
    warnings,         \* shared sources a "Warning: Failed to process" names
    exit_status       \* the process's exit status ("running" before the end)

filterVars == <<value, once, twice>>
mergeVars  == <<variable_dicts, result, nmerged>>
mainVars   == <<args, config_file, variables>>
deriveVars == <<project_type, template_file, rel_output_path>>
genVars    == <<tree, template_files, copy_shared, preexisting, disk, i,
                generated_files, processed_files, error, render_calls, warnings,
                exit_status>>
vars == <<pc, filterVars, mergeVars, mainVars, deriveVars, genVars>>

\* What each part of the program leaves alone.
notFilter == <<mergeVars, mainVars, deriveVars, genVars>>
notMerge  == <<filterVars, mainVars, deriveVars, genVars>>
notMain   == <<filterVars, mergeVars, deriveVars, genVars>>
notDerive == <<filterVars, mergeVars, mainVars, genVars>>
notGen    == <<filterVars, mergeVars, mainVars, deriveVars>>

(***************************************************************************)
(* Bounds                                                                  *)
(***************************************************************************)
MaxIdLen == 3        \* longest identifier-filter input, in characters
NumSources == 3      \* dictionaries given to merge_variables
MaxPathLen == 3      \* tokens of a template path below its category
MaxTemplates == 2    \* project templates discovered in one run
MaxShared == 2       \* shared files walked in one run

(***************************************************************************)
(* Text helpers                                                            *)
(***************************************************************************)
\* All sequences over S of length lo..hi.
SeqsOf(S, lo, hi) == UNION {[1..n -> S] : n \in lo..hi}

\* Sequences over S without repetition, of length 0..n.
DistinctSeqs(S, n) ==
    {s \in SeqsOf(S, 0, n) : \A a, b \in 1..Len(s) : a /= b => s[a] /= s[b]}

Range(s) == {s[n] : n \in 1..Len(s)}

StartsWith(s, pat) ==
    Len(pat) <= Len(s) /\ SubSeq(s, 1, Len(pat)) = pat

EndsWith(s, pat) ==
    Len(pat) <= Len(s) /\ SubSeq(s, Len(s) - Len(pat) + 1, Len(s)) = pat

\* str.replace(pat, ""): every non-overlapping occurrence, left to right.
RECURSIVE RemoveAll(_, _)
RemoveAll(s, pat) ==
    IF Len(s) < Len(pat) \/ pat = <<>> THEN s
    ELSE IF StartsWith(s, pat)
         THEN RemoveAll(SubSeq(s, Len(pat) + 1, Len(s)), pat)
         ELSE <<Head(s)>> \o RemoveAll(Tail(s), pat)

(***************************************************************************)
(* _to_cpp_identifier_filter                                               *)
(***************************************************************************)
Chars == {"a", "1", "-", "_"}

\* str.isalpha() of one character.
IsAlpha(c) == c = "a"

\* value.replace('-', '_')
ReplaceHyphens(s) == [n \in 1..Len(s) |-> IF s[n] = "-" THEN "_" ELSE s[n]]

\* line 60: result and not (result[0].isalpha() or result[0] == '_')
NeedsPrefixAlphaOnly(r) == r /= <<>> /\ ~IsAlpha(r[1])
NeedsPrefix(r) == r /= <<>> /\ ~(IsAlpha(r[1]) \/ r[1] = "_")

to_cpp_identifier(v) ==
    IF v = <<>> THEN v
    ELSE LET r == ReplaceHyphens(v)
         IN IF NeedsPrefix(r) THEN <<"_">> \o r ELSE r

IdleFilter == value = <<>> /\ once = <<>> /\ twice = <<>>

InitFilter ==
    /\ pc = "filter"
    /\ value \in SeqsOf(Chars, 0, MaxIdLen)
    /\ once = <<>>
    /\ twice = <<>>

\* A template applies the filter to `value`.
ApplyFilter ==
    /\ pc = "filter"
    /\ once' = to_cpp_identifier(value)
    /\ pc' = "filter_again"
    /\ UNCHANGED <<value, twice>>
    /\ UNCHANGED notFilter

\* A template applies the filter to the filter's result.
ApplyFilterAgain ==
    /\ pc = "filter_again"
    /\ twice' = to_cpp_identifier(once)
    /\ pc' = "filtered"
    /\ UNCHANGED <<value, once>>
    /\ UNCHANGED notFilter

(***************************************************************************)
(* merge_variables                                                         *)
(***************************************************************************)
\* A value of a variable mapping: a scalar, or a nested mapping given as its
\* set of <<sub-key, sub-value>> pairs.
Scalar(s) == [kind |-> "scalar", str |-> s, sub |-> {}]
Nested(pairs) == [kind |-> "map", str |-> "", sub |-> pairs]

EmptyDict == [k \in {} |-> Scalar("")]

DictsOver(keys, vals) == UNION {[S -> vals] : S \in SUBSET keys}

\* dict.update(d) on r
DictUpdateKeepFirst(r, d) ==
    [k \in DOMAIN r \cup DOMAIN d |-> IF k \in DOMAIN r THEN r[k] ELSE d[k]]
DictUpdate(r, d) ==
    [k \in DOMAIN r \cup DOMAIN d |-> IF k \in DOMAIN d THEN d[k] ELSE r[k]]

\* merge_variables(*ds): result = {}; for var_dict in ds: result.update(var_dict)
RECURSIVE MergeFrom(_, _)
MergeFrom(r, ds) ==
    IF ds = <<>> THEN r ELSE MergeFrom(DictUpdate(r, Head(ds)), Tail(ds))

merge_variables(ds) == MergeFrom(EmptyDict, ds)

MergeKeys == {"project_name", "optional_libraries"}
MergeValues ==
    { Scalar("x"),
      Nested({<<"fmt", "true">>}),
      Nested({<<"boost", "false">>}) }

IdleMerge == variable_dicts = <<>> /\ result = EmptyDict /\ nmerged = 0

InitMerge ==
    /\ pc = "merge"
    /\ variable_dicts \in [1..NumSources -> DictsOver(MergeKeys, MergeValues)]
    /\ result = EmptyDict
    /\ nmerged = 0

\* One iteration of the loop of merge_variables.
MergeUpdate ==
    /\ pc = "merge"
    /\ nmerged < Len(variable_dicts)
    /\ result' = DictUpdate(result, variable_dicts[nmerged + 1])
    /\ nmerged' = nmerged + 1
    /\ UNCHANGED <<pc, variable_dicts>>
    /\ UNCHANGED notMerge

\* return result
MergeReturn ==
    /\ pc = "merge"
    /\ nmerged = Len(variable_dicts)
    /\ pc' = "merged"
    /\ UNCHANGED mergeVars
    /\ UNCHANGED notMerge

(***************************************************************************)
(* Output path derivation (generate_project_files, line 201)               *)
(***************************************************************************)
Categories == {"console", "library"}
Marker == <<".template">>

\* template_file.replace(f"{project_type}/", "").replace(".template", "")
DeriveOutput(tf, cat) == RemoveAll(RemoveAll(tf, <<cat, "/">>), Marker)

\* Text of a path below the category directory, before the marker suffix:
\* no leading, trailing or doubled separator, and no name that starts with
\* the marker.
PathTokens == {"console", "src", "/", ".template"}
IsRelPath(p) ==
    /\ p /= <<>>
    /\ p[1] \notin {"/", ".template"}
    /\ p[Len(p)] /= "/"
    /\ \A n \in 1..(Len(p) - 1) : p[n] = "/" => p[n + 1] \notin {"/", ".template"}
RelPaths == {p \in SeqsOf(PathTokens, 1, MaxPathLen) : IsRelPath(p)}

\* The part of a discovered template path between "category/" and the
\* trailing marker suffix.
BelowCategory(tf) == SubSeq(tf, 3, Len(tf) - 1)

IdleDerive == project_type = "console" /\ template_file = <<>> /\ rel_output_path = <<>>

InitDerive ==
    /\ pc = "derive"
    /\ project_type \in Categories
    /\ \E p \in RelPaths : template_file = <<project_type, "/">> \o p \o Marker
    /\ rel_output_path = <<>>

\* line 201 for one discovered template
Derive ==
    /\ pc = "derive"
    /\ rel_output_path' = DeriveOutput(template_file, project_type)
    /\ pc' = "derived"
    /\ UNCHANGED <<project_type, template_file>>
    /\ UNCHANGED notDerive

(***************************************************************************)
(* main: layering of the variable sources (lines 323-344)                  *)
(***************************************************************************)
None == "<None>"

\* Python truthiness of an optional string argument.
Truthy(s) == s /= None /\ s /= ""

get_default_variables(ptype) ==
    [k \in {"project_name", "project_version", "project_description",
            "project_author", "project_type", "cpp_standard", "cmake_version",
            "enable_sanitizers", "enable_warnings", "use_vcpkg",
            "optional_libraries"} |->
        CASE k = "project_name" -> Scalar("MyProject")
          [] k = "project_version" -> Scalar("1.0.0")
          [] k = "project_description" ->
                Scalar(IF ptype = "console" THEN "A modern C++20 console application"
                       ELSE "A modern C++20 library application")
          [] k = "project_author" -> Scalar("Developer")
          [] k = "project_type" -> Scalar(ptype)
          [] k = "cpp_standard" -> Scalar("20")
          [] k = "cmake_version" -> Scalar("3.20")
          [] k = "optional_libraries" ->
                Nested({<<"fmt", "true">>, <<"spdlog", "true">>, <<"catch2", "true">>,
                        <<"boost", "false">>, <<"openssl", "false">>})
          [] OTHER -> Scalar("True")]

\* load_variables_from_file: the parsed object, or {} when the file is
\* missing or is not valid JSON.
load_variables_from_file(f) == IF f.readable THEN f.vars ELSE EmptyDict

\* lines 335-341
cli_vars(a) ==
    LET given == {k \in {"project_author", "project_version", "project_description"} :
                    Truthy(a[k])}
    IN [k \in given |-> Scalar(a[k])]

ConfigKeys == {"project_name", "project_author", "project_version"}
ConfigFiles ==
    {[readable |-> FALSE, vars |-> EmptyDict]} \cup
    {[readable |-> TRUE, vars |-> d] : d \in DictsOver(ConfigKeys, {Scalar("from-config")})}

ArgSets ==
    [project_type : {"console"},
     project_name : {"App"},
     config : BOOLEAN,
     project_author : {None, "", "Ann"},
     project_version : {None, "2.0"},
     project_description : {None, "text"}]

IdleMain ==
    /\ args = [project_type |-> "console", project_name |-> "App", config |-> FALSE,
               project_author |-> None, project_version |-> None,
               project_description |-> None]
    /\ config_file = [readable |-> FALSE, vars |-> EmptyDict]
    /\ variables = EmptyDict

InitMain ==
    /\ pc = "main_defaults"
    /\ args \in ArgSets
    /\ config_file \in ConfigFiles
    /\ (~args.config => config_file = [readable |-> FALSE, vars |-> EmptyDict])
    /\ variables = EmptyDict

\* lines 324-327: defaults, then the project name of the command line
MainDefaults ==
    /\ pc = "main_defaults"
    /\ variables' = [get_default_variables(args.project_type)
                        EXCEPT !["project_name"] = Scalar(args.project_name)]
    /\ pc' = "main_config"
    /\ UNCHANGED <<args, config_file>>
    /\ UNCHANGED notMain

\* lines 330-332
MainConfig ==
    /\ pc = "main_config"
    /\ variables' = IF args.config
                    THEN merge_variables(<<variables, load_variables_from_file(config_file)>>)
                    ELSE variables
    /\ pc' = "main_cli"
    /\ UNCHANGED <<args, config_file>>
    /\ UNCHANGED notMain

\* lines 335-344
MainCli ==
    /\ pc = "main_cli"
    /\ variables' = IF cli_vars(args) /= EmptyDict
                    THEN merge_variables(<<variables, cli_vars(args)>>)
                    ELSE variables
    /\ pc' = "main_generate"
    /\ UNCHANGED <<args, config_file>>
    /\ UNCHANGED notMain

(***************************************************************************)
(* Paths (pathlib)                                                         *)
(***************************************************************************)
Extensions == {".sh", ".template", ".cmake"}

RECURSIVE LastSep(_)
\* Index of the last "/" of a path, 0 when it has none.
LastSep(p) ==
    IF p = <<>> THEN 0
    ELSE IF p[Len(p)] = "/" THEN Len(p) ELSE LastSep(SubSeq(p, 1, Len(p) - 1))

\* Path.name
Name(p) == SubSeq(p, LastSep(p) + 1, Len(p))

\* Path.suffix: the last extension of the name, "" when the name has none or
\* consists of that extension alone (a dot file).
Suffix(p) ==
    LET n == Name(p)
    IN IF Len(n) >= 2 /\ n[Len(n)] \in Extensions THEN n[Len(n)] ELSE ""

\* Path.with_suffix('') of a path that has a suffix
WithoutSuffix(p) == SubSeq(p, 1, Len(p) - 1)

\* src_file.relative_to(shared_dir), as text relative to templates_dir
RelativeToShared(src) == SubSeq(src, 3, Len(src))

\* lines 244-250: the destination of a shared file, relative to output_path
SharedDest(src) ==
    LET rel == RelativeToShared(src)
    IN IF Suffix(rel) = ".template" THEN WithoutSuffix(rel) ELSE rel

\* line 165: file.endswith('.template')
IsTemplate(f) == EndsWith(f, Marker)

\* get_template_files: the files of the walk that carry the marker suffix
get_template_files(walk) == SelectSeq(walk, IsTemplate)

(***************************************************************************)
(* The template library and the output tree                                *)
(***************************************************************************)
ProjectFiles ==
    { <<"console", "/", "main", ".template">>,
      <<"console", "/", "src", "/", "main", ".template">>,
      <<"console", "/", "notes">> }

SharedFiles ==
    { <<"shared", "/", "main">>,
      <<"shared", "/", "build", ".sh">>,
      <<"shared", "/", "build", ".sh", ".template">>,
      <<"shared", "/", "cmake", "/", "mod", ".cmake", ".template">> }

Dests ==
    {DeriveOutput(t, "console") : t \in ProjectFiles} \cup
    {SharedDest(f) : f \in SharedFiles}

NoFile == [by |-> "absent", src |-> <<>>, mode |-> "-"]
OldFile == [by |-> "earlier", src |-> <<>>, mode |-> "old"]

\* The permission bits chmod sets (line 280).
ScriptMode == "0o755"

InitialDisk(pre) == [d \in Dests |-> IF pre THEN OldFile ELSE NoFile]

\* open(path, 'w'): creates the file with the default mode, or truncates it
\* and keeps its mode.
Opened(d, path) ==
    [d EXCEPT ![path] = [by |-> "empty", src |-> <<>>,
                         mode |-> IF d[path].by = "absent" THEN "default"
                                  ELSE d[path].mode]]

\* open(path, 'w') and f.write(render(src)), both succeeding
Written(d, path, src) ==
    [d EXCEPT ![path] = [Opened(d, path)[path] EXCEPT !.by = "render", !.src = src]]

\* shutil.copy2(src, path): the bytes of src, then its permission bits
Copied(d, path, src) ==
    [d EXCEPT ![path] = [by |-> "copy", src |-> src, mode |-> "src"]]

\* Path.chmod(0o755)
Chmodded(d, path) == [d EXCEPT ![path].mode = ScriptMode]

NoError == [kind |-> "none", op |-> "none", src |-> <<>>]
RenderErrors(src) ==
    {[kind |-> k, op |-> "render", src |-> src] : k \in {"FileNotFoundError", "RuntimeError"}}
IOError(op, src) == [kind |-> "OSError", op |-> op, src |-> src]

(***************************************************************************)
(* generate_project_files                                                  *)
(***************************************************************************)
\* main, lines 362-364: any exception ends the invocation with status 1.
MainExcept(e) ==
    /\ pc' = "failed"
    /\ error' = e
    /\ exit_status' = "1"

\* The loop of lines 196-212 has no handler: whatever process_template or the
\* write raises leaves generate_project_files.
ProjectSkipsRenderError(e) == e.op = "render"
ProjectCatches(e) == FALSE

IdleGen ==
    /\ tree = [project |-> <<>>, shared |-> <<>>, has_category |-> FALSE,
               has_shared |-> FALSE]
    /\ template_files = <<>>
    /\ copy_shared = FALSE
    /\ preexisting = FALSE
    /\ disk = InitialDisk(FALSE)
    /\ i = 0
    /\ generated_files = <<>>
    /\ processed_files = <<>>
    /\ error = NoError
    /\ render_calls = <<>>
    /\ warnings = {}
    /\ exit_status = "running"

InitGen ==
    /\ pc = "gen_start"
    /\ tree \in [project : DistinctSeqs(ProjectFiles, MaxTemplates),
                 shared : DistinctSeqs(SharedFiles, MaxShared),
                 has_category : BOOLEAN,
                 has_shared : BOOLEAN]
    /\ (~tree.has_category => tree.project = <<>>)
    /\ (~tree.has_shared => tree.shared = <<>>)
    /\ template_files = <<>>
    /\ copy_shared \in BOOLEAN
    /\ preexisting \in BOOLEAN
    /\ disk = InitialDisk(preexisting)
    /\ i = 0
    /\ generated_files = <<>>
    /\ processed_files = <<>>
    /\ error = NoError
    /\ render_calls = <<>>
    /\ warnings = {}
    /\ exit_status = "running"

\* lines 188-194: create the output directory, discover the templates
GenStart ==
    /\ pc = "gen_start"
    /\ \/ /\ MainExcept(IOError("mkdir", <<>>))
          /\ UNCHANGED <<template_files, i>>
       \/ /\ ~tree.has_category
          /\ MainExcept([kind |-> "ValueError", op |-> "discover", src |-> <<>>])
          /\ UNCHANGED <<template_files, i>>
       \/ /\ tree.has_category
          /\ template_files' = get_template_files(tree.project)
          /\ i' = 1
          /\ pc' = "t_render"
          /\ UNCHANGED <<error, exit_status>>
    /\ UNCHANGED <<tree, copy_shared, preexisting, disk, generated_files,
                   processed_files, render_calls, warnings>>
    /\ UNCHANGED notGen

\* line 198: process_template on the i-th template
ProjectRender ==
    /\ pc = "t_render"
    /\ i <= Len(template_files)
    /\ render_calls' = Append(render_calls, template_files[i])
    /\ \/ /\ pc' = "t_write"
          /\ UNCHANGED <<i, error, exit_status>>
       \/ \E e \in RenderErrors(template_files[i]) :
            IF ProjectCatches(e)
            THEN /\ i' = i + 1
                 /\ UNCHANGED <<pc, error, exit_status>>
            ELSE /\ MainExcept(e)
                 /\ UNCHANGED i
    /\ UNCHANGED <<tree, template_files, copy_shared, preexisting, disk,
                   generated_files, processed_files, warnings>>
    /\ UNCHANGED notGen

\* lines 200-212: derive the output path, create its directory, write
ProjectWrite ==
    /\ pc = "t_write"
    /\ LET src == template_files[i]
           dest == DeriveOutput(src, project_type)
       IN \/ /\ disk' = Written(disk, dest, src)
             /\ generated_files' = Append(generated_files, dest)
             /\ i' = i + 1
             /\ pc' = "t_render"
             /\ UNCHANGED <<error, exit_status>>
          \/ \E op \in {"mkdir", "open"} :   \* nothing written
                /\ MainExcept(IOError(op, src))
                /\ UNCHANGED <<disk, generated_files, i>>
          \/ /\ MainExcept(IOError("write", src))   \* opened, then the write fails
             /\ disk' = Opened(disk, dest)
             /\ UNCHANGED <<generated_files, i>>
    /\ UNCHANGED <<tree, template_files, copy_shared, preexisting,
                   processed_files, render_calls, warnings>>
    /\ UNCHANGED notGen

\* line 217: generated_files.extend(shared_files)
ExtendDropsProject(g, p) == p
ExtendGenerated(g, p) == g \o p

\* lines 214-219 when shared files are not copied, and lines 233-235
ProjectDone ==
    /\ pc = "t_render"
    /\ i > Len(template_files)
    /\ IF copy_shared /\ tree.has_shared
       THEN /\ pc' = "s_render"
            /\ i' = 1
            /\ UNCHANGED <<generated_files, exit_status>>
       ELSE /\ pc' = "done"
            /\ generated_files' = IF copy_shared THEN ExtendGenerated(generated_files, <<>>)
                                  ELSE generated_files
            /\ exit_status' = "0"
            /\ UNCHANGED i
    /\ UNCHANGED <<tree, template_files, copy_shared, preexisting, disk,
                   processed_files, error, render_calls, warnings>>
    /\ UNCHANGED notGen

(***************************************************************************)
(* _copy_shared_files                                                      *)
(***************************************************************************)
\* line 267: `except Exception` takes every failure of the try block
SharedCatchesLookupOnly(e) == e.kind = "FileNotFoundError"
SharedCatches(e) == TRUE

\* line 272: the warning is decided on the destination's suffix
WarnsOnSourceSuffix(src) == Suffix(src) = ".sh"
WarnsOnFallback(src) == Suffix(SharedDest(src)) = ".sh"

\* line 279: scripts are made executable, decided on the destination's suffix
MakesExecutableBySource(src) == Suffix(src) = ".sh"
MakesExecutable(src) == Suffix(SharedDest(src)) = ".sh"

\* lines 241-260: destination, its directory, process_template
SharedRender ==
    /\ pc = "s_render"
    /\ i <= Len(tree.shared)
    /\ LET src == tree.shared[i]
       IN \/ /\ MainExcept(IOError("mkdir", src))
             /\ UNCHANGED render_calls
          \/ /\ render_calls' = Append(render_calls, src)
             /\ \/ /\ pc' = "s_write"
                   /\ UNCHANGED <<error, exit_status>>
                \/ \E e \in RenderErrors(src) :
                     IF SharedCatches(e)
                     THEN /\ pc' = "s_fallback"
                          /\ error' = e
                          /\ UNCHANGED exit_status
                     ELSE MainExcept(e)
    /\ UNCHANGED <<tree, template_files, copy_shared, preexisting, disk, i,
                   generated_files, processed_files, warnings>>
    /\ UNCHANGED notGen

\* lines 262-265: write the rendered text (inside the try block)
SharedWrite ==
    /\ pc = "s_write"
    /\ LET src == tree.shared[i]
           dest == SharedDest(src)
       IN \/ /\ disk' = Written(disk, dest, src)
             /\ pc' = "s_chmod"
             /\ UNCHANGED <<error, exit_status>>
          \/ \E op \in {"open", "write"} :
                /\ disk' = IF op = "write" THEN Opened(disk, dest) ELSE disk
                /\ IF SharedCatches(IOError(op, src))
                   THEN /\ pc' = "s_fallback"
                        /\ error' = IOError(op, src)
                        /\ UNCHANGED exit_status
                   ELSE MainExcept(IOError(op, src))
    /\ UNCHANGED <<tree, template_files, copy_shared, preexisting, i,
                   generated_files, processed_files, render_calls, warnings>>
    /\ UNCHANGED notGen

\* lines 267-276: the handler: warn for a script, copy the source
SharedFallback ==
    /\ pc = "s_fallback"
    /\ LET src == tree.shared[i]
           dest == SharedDest(src)
       IN /\ warnings' = IF WarnsOnFallback(src) THEN warnings \cup {src} ELSE warnings
          /\ \/ /\ disk' = Copied(disk, dest, src)
                /\ pc' = "s_chmod"
                /\ UNCHANGED <<error, exit_status>>
             \/ /\ MainExcept(IOError("copy", src))
                /\ \/ UNCHANGED disk                  \* nothing copied
                   \/ disk' = Opened(disk, dest)      \* the copy broke off
    /\ UNCHANGED <<tree, template_files, copy_shared, preexisting, i,
                   generated_files, processed_files, render_calls>>
    /\ UNCHANGED notGen

\* lines 278-282: make a script executable, record the destination
SharedChmod ==
    /\ pc = "s_chmod"
    /\ LET src == tree.shared[i]
           dest == SharedDest(src)
       IN \/ /\ disk' = IF MakesExecutable(src) THEN Chmodded(disk, dest) ELSE disk
             /\ processed_files' = Append(processed_files, dest)
             /\ i' = i + 1
             /\ pc' = "s_render"
             /\ error' = NoError
             /\ UNCHANGED exit_status
          \/ /\ MakesExecutable(src)
             /\ MainExcept(IOError("chmod", src))
             /\ UNCHANGED <<disk, processed_files, i>>
    /\ UNCHANGED <<tree, template_files, copy_shared, preexisting,
                   generated_files, render_calls, warnings>>
    /\ UNCHANGED notGen

\* lines 284 and 216-219: return the list, extend, return
SharedDone ==
    /\ pc = "s_render"
    /\ i > Len(tree.shared)
    /\ generated_files' = ExtendGenerated(generated_files, processed_files)
    /\ pc' = "done"
    /\ exit_status' = "0"
    /\ UNCHANGED <<tree, template_files, copy_shared, preexisting, disk, i,
                   processed_files, error, render_calls, warnings>>
    /\ UNCHANGED notGen

(***************************************************************************)
(* Specifications                                                          *)
(***************************************************************************)
\* The generation pipeline.
Init == InitGen /\ IdleFilter /\ IdleMerge /\ IdleMain /\ IdleDerive

Next ==
    \/ GenStart
    \/ ProjectRender
    \/ ProjectWrite
    \/ ProjectDone
    \/ SharedRender
    \/ SharedWrite
    \/ SharedFallback
    \/ SharedChmod
    \/ SharedDone

Spec == Init /\ [][Next]_vars

\* The identifier filter, applied once and twice to every bounded input.
FilterInit == InitFilter /\ IdleMerge /\ IdleMain /\ IdleDerive /\ IdleGen
NextFilter == ApplyFilter \/ ApplyFilterAgain
SpecFilter == FilterInit /\ [][NextFilter]_vars

\* merge_variables on every bounded list of dictionaries.
MergeInit == InitMerge /\ IdleFilter /\ IdleMain /\ IdleDerive /\ IdleGen
NextMerge == MergeUpdate \/ MergeReturn
SpecMerge == MergeInit /\ [][NextMerge]_vars

\* The path derivation on every bounded template path.
DeriveInit == InitDerive /\ IdleFilter /\ IdleMerge /\ IdleMain /\ IdleGen
NextDerive == Derive
SpecDerive == DeriveInit /\ [][NextDerive]_vars

\* main's construction of the variable mapping.
MainInit == InitMain /\ IdleFilter /\ IdleMerge /\ IdleDerive /\ IdleGen
NextMain == MainDefaults \/ MainConfig \/ MainCli
SpecMain == MainInit /\ [][NextMain]_vars

(***************************************************************************)
(* Properties                                                              *)
(***************************************************************************)
NoDuplicates(s) == \A a, b \in 1..Len(s) : a /= b => s[a] /= s[b]

\* Index of the last dictionary of ds that defines k, 0 when none does.
LastSource(ds, k) ==
    LET S == {n \in 1..Len(ds) : k \in DOMAIN ds[n]}
    IN IF S = {} THEN 0 ELSE CHOOSE n \in S : \A m \in S : m <= n

SubKeys(v) == {pr[1] : pr \in v.sub}

\* Both values are nested mappings and they share no sub-key.
DisjointNested(v, w) ==
    v.kind = "map" /\ w.kind = "map" /\ SubKeys(v) \cap SubKeys(w) = {}

\* C1: merge_variables is a shallow, last-source-wins merge.  For every key
\* the result holds the value of the last source that defines the key, the
\* key is absent only when no source defines it, and when the last two
\* sources both give nested mappings with disjoint sub-keys the result is
\* exactly the later one: no sub-key of the earlier one survives.
C1_ShallowLastWins ==
    pc = "merged" =>
        \A k \in MergeKeys :
            LET n == LastSource(variable_dicts, k)
                C == variable_dicts[Len(variable_dicts) - 1]
                O == variable_dicts[Len(variable_dicts)]
            IN /\ (n = 0) <=> (k \notin DOMAIN result)
               /\ n > 0 => result[k] = variable_dicts[n][k]
               /\ (k \in DOMAIN C /\ k \in DOMAIN O /\ DisjointNested(C[k], O[k])) =>
                    /\ result[k] = O[k]
                    /\ SubKeys(result[k]) \cap SubKeys(C[k]) = {}

C1_Witness ==
    /\ pc = "merged"
    /\ \E k \in MergeKeys :
          /\ \A n \in 1..Len(variable_dicts) : k \in DOMAIN variable_dicts[n]
          /\ DisjointNested(variable_dicts[Len(variable_dicts) - 1][k],
                            variable_dicts[Len(variable_dicts)][k])
          /\ variable_dicts[1][k].kind = "scalar"
          /\ result[k] = variable_dicts[Len(variable_dicts)][k]

\* A project source is a path below the category directory.
IsProjectSource(src) == src /= <<>> /\ src[1] = project_type

\* The calls of process_template made for project templates.
ProjectCalls == SelectSeq(render_calls, IsProjectSource)

\* The output tree after the first k project templates were written.
RECURSIVE DiskAfterTemplates(_)
DiskAfterTemplates(k) ==
    IF k = 0 THEN InitialDisk(preexisting)
    ELSE Written(DiskAfterTemplates(k - 1),
                 DeriveOutput(template_files[k], project_type), template_files[k])

\* C2: when rendering the i-th project template fails, generation aborts
\* there: the templates handed to rendering are exactly the first i, every
\* template rendered before the last one has been written (so none is
\* rendered after a failure), no shared file is processed, the output tree
\* is the one the first i-1 templates left, and the exit status is 1.
C2_AbortOnProjectRenderFailure ==
    /\ \A n \in 1..(Len(ProjectCalls) - 1) :
          /\ n <= Len(generated_files)
          /\ generated_files[n] = DeriveOutput(ProjectCalls[n], project_type)
    /\ (pc = "failed" /\ error.op = "render" /\ IsProjectSource(error.src)) =>
          /\ error.src = template_files[i]
          /\ render_calls = SubSeq(template_files, 1, i)
          /\ generated_files =
                [n \in 1..(i - 1) |-> DeriveOutput(template_files[n], project_type)]
          /\ processed_files = <<>>
          /\ warnings = {}
          /\ disk = DiskAfterTemplates(i - 1)
          /\ exit_status = "1"
          /\ ~ENABLED Next

C2_Witness ==
    /\ pc = "failed"
    /\ error.op = "render"
    /\ IsProjectSource(error.src)
    /\ i = 2
    /\ Len(generated_files) = 1
    /\ copy_shared
    /\ tree.shared /= <<>>

\* C3: a rendering or lookup failure on a shared file is never fatal.  An
\* abort while a shared file is in work is never due to rendering; after the
\* fallback the destination holds exactly the bytes of the source; and a run
\* that completes returns the destination of every shared file, in order.
C3_SharedRenderFailureRecovered ==
    /\ (pc = "failed" /\ error.src \in Range(tree.shared)) => error.op /= "render"
    /\ (pc = "s_chmod" /\ error.op = "render") =>
          LET src == tree.shared[i]
          IN /\ disk[SharedDest(src)].by = "copy"
             /\ disk[SharedDest(src)].src = src
    /\ (pc = "done" /\ copy_shared) =>
          processed_files = [n \in 1..Len(tree.shared) |-> SharedDest(tree.shared[n])]

C3_Witness ==
    /\ pc = "s_chmod"
    /\ error.op = "render"
    /\ error.kind = "RuntimeError"
    /\ i < Len(tree.shared)
    /\ disk[SharedDest(tree.shared[i])].by = "copy"

\* C4: every failure of a write, a directory creation or a copy is fatal,
\* also while a shared file is in work: once such a failure was raised the
\* invocation has aborted, and the source is never copied in place of a
\* rendered text that could not be written.
C4_WriteFailureIsFatal ==
    /\ error.kind = "OSError" => pc = "failed"
    /\ ~(pc = "s_chmod" /\ error.op \in {"open", "write"}
         /\ disk[SharedDest(tree.shared[i])].by = "copy")

\* The name of src, with a trailing marker suffix taken off, ends in ".sh".
IsScriptAfterMarker(src) ==
    LET n == Name(src)
        m == IF Len(n) >= 2 /\ n[Len(n)] = ".template" THEN SubSeq(n, 1, Len(n) - 1) ELSE n
    IN Len(m) >= 2 /\ m[Len(m)] = ".sh"

\* C5 as stated: for a shared file whose rendering failed, a warning names
\* the file if and only if the SOURCE file's extension is the script
\* extension.
C5_WarnIffSourceIsScript ==
    (pc = "s_chmod" /\ error.op = "render") =>
        (tree.shared[i] \in warnings <=> Suffix(tree.shared[i]) = ".sh")

\* C5 (amended): for a shared file whose rendering failed, a warning names
\* the file if and only if its DESTINATION has the script extension, that
\* is, the source name with a trailing marker suffix removed ends in ".sh";
\* and no warning ever names a file whose destination is not a script.
C5_WarnIffDestinationIsScript ==
    /\ (pc = "s_chmod" /\ error.op = "render") =>
          (tree.shared[i] \in warnings <=> IsScriptAfterMarker(tree.shared[i]))
    /\ \A w \in warnings : IsScriptAfterMarker(w)

C5_Witness ==
    /\ pc = "s_chmod"
    /\ error.op = "render"
    /\ Suffix(tree.shared[i]) = ".template"
    /\ tree.shared[i] \in warnings

\* C6: the derived output path of category/P.template is exactly P.
C6_DerivesExactPath ==
    pc = "derived" => rel_output_path = BelowCategory(template_file)

\* After a completed run every shared destination that is a script has the
\* mode chmod sets.
ScriptsExecutable ==
    (pc = "done" /\ copy_shared) =>
        \A n \in 1..Len(tree.shared) :
            LET dest == SharedDest(tree.shared[n])
            IN Suffix(dest) = ".sh" => disk[dest].mode = ScriptMode

\* When the permission step is reached, the destination already holds the
\* content produced from the file in work.
ChmodAfterWrite ==
    pc = "s_chmod" =>
        LET dest == SharedDest(tree.shared[i])
        IN disk[dest].by \in {"render", "copy"} /\ disk[dest].src = tree.shared[i]

\* A step leaves the mode of every existing non-script destination as it is.
NonScriptModeKept ==
    \A p \in Dests :
        (Suffix(p) /= ".sh" /\ disk[p].by /= "absent") => disk'[p].mode = disk[p].mode

\* A step changes the mode of an existing non-script destination only by the
\* fallback copy, which gives it the source's mode, never the script mode.
NonScriptModeOnlyCopied ==
    \A p \in Dests :
        (Suffix(p) /= ".sh" /\ disk[p].by /= "absent" /\ disk'[p].mode /= disk[p].mode) =>
            /\ pc = "s_fallback"
            /\ disk'[p].by = "copy"
            /\ disk'[p].mode = "src"

\* C7 as stated: script destinations end with mode 0755 however produced,
\* the mode is set after the content was written, and the processor changes
\* the permissions of no non-script destination.
C7_OnlyScriptsChangeMode ==
    [](ScriptsExecutable /\ ChmodAfterWrite) /\ [][NonScriptModeKept]_vars

\* C7 (amended): script destinations end with mode 0755 however produced,
\* the mode is set after the content was written, and the chmod to 0755 is
\* applied to no non-script destination; the only change of a non-script
\* destination's permissions is the fallback copy giving it the source
\* file's permission bits.
C7_ScriptsExecutableOthersCopied ==
    /\ [](ScriptsExecutable /\ ChmodAfterWrite)
    /\ [](\A p \in Dests : Suffix(p) /= ".sh" => disk[p].mode /= ScriptMode)
    /\ [][NonScriptModeOnlyCopied]_vars

C7_Witness ==
    /\ pc = "done"
    /\ \E n \in 1..Len(tree.shared) :
          LET dest == SharedDest(tree.shared[n])
          IN /\ Suffix(dest) = ".sh"
             /\ disk[dest].by = "copy"
             /\ disk[dest].mode = ScriptMode
    /\ \E p \in Dests : Suffix(p) /= ".sh" /\ disk[p].mode = "src"

\* C8: the filter replaces every hyphen by an underscore and then prefixes an
\* underscore unless the text starts with a letter or an underscore; empty
\* input stays empty; applying it twice gives what applying it once gives,
\* for every input; and an input without hyphen that starts with a letter or
\* an underscore is returned as it is.
C8_FilterIdempotent ==
    /\ pc \in {"filter_again", "filtered"} =>
          /\ (once = <<>>) <=> (value = <<>>)
          /\ "-" \notin Range(once)
          /\ once /= <<>> => (IsAlpha(once[1]) \/ once[1] = "_")
          /\ \/ once = ReplaceHyphens(value)
             \/ /\ once = <<"_">> \o ReplaceHyphens(value)
                /\ ~(IsAlpha(value[1]) \/ value[1] \in {"_", "-"})
          /\ ("-" \notin Range(value) /\ value /= <<>>
                /\ (IsAlpha(value[1]) \/ value[1] = "_")) => once = value
    /\ pc = "filtered" => twice = once

C8_Witness ==
    /\ pc = "filtered"
    /\ Len(value) >= 2
    /\ value[1] = "1"
    /\ "-" \in Range(value)
    /\ once /= value
    /\ twice = once

\* The destinations written so far in this run, in order.
WrittenSoFar ==
    IF pc = "done" THEN generated_files ELSE generated_files \o processed_files

\* The sources processed by a completed run, in order.
ProcessedSources ==
    template_files \o (IF copy_shared THEN tree.shared ELSE <<>>)

DestOf(src) ==
    IF IsProjectSource(src) THEN DeriveOutput(src, project_type) ELSE SharedDest(src)

\* C9 as stated: no destination is written twice in one run, so the list of
\* written destinations has no duplicate.
C9_NoDestinationTwice == NoDuplicates(WrittenSoFar)

\* C9 (amended): a completed run returns exactly one entry per processed
\* source, in processing order; two sources may have the same destination,
\* and then the entry is repeated and the file holds what the last of them
\* produced; the files this run left in the output are exactly the distinct
\* entries of the list.
C9_OneEntryPerSource ==
    pc = "done" =>
        /\ Len(generated_files) = Len(ProcessedSources)
        /\ \A n \in 1..Len(ProcessedSources) : generated_files[n] = DestOf(ProcessedSources[n])
        /\ {p \in Dests : disk[p].by \notin {"absent", "earlier"}} = Range(generated_files)
        /\ \A p \in Range(generated_files) :
              LET last == CHOOSE n \in 1..Len(ProcessedSources) :
                            /\ DestOf(ProcessedSources[n]) = p
                            /\ \A m \in 1..Len(ProcessedSources) :
                                  DestOf(ProcessedSources[m]) = p => m <= n
              IN disk[p].src = ProcessedSources[last]

C9_Witness ==
    /\ pc = "done"
    /\ ~NoDuplicates(generated_files)
    /\ template_files /= <<>>
    /\ Len(generated_files) > Cardinality(Range(generated_files))

\* C10: in the mapping handed to generation, project_name is the name given
\* on the command line and each of author, version and description is the
\* command-line option when that option was given (with a non-empty value,
\* which is what the program takes as given).
C10_CallerWinsOverConfig ==
    pc = "main_generate" =>
        /\ variables["project_name"] = Scalar(args.project_name)
        /\ \A k \in {"project_author", "project_version", "project_description"} :
              Truthy(args[k]) => variables[k] = Scalar(args[k])

====
